---- MODULE Spec2Model ----
(***************************************************************************)
(* Model of the Node event-dispatch core of mir (src/workers.go): the      *)
(* per-module worker routines processModuleEvents and processEvents, the   *)
(* doUntilErr driver, safelyApplyEvents, and the parts of the node they    *)
(* talk to (dispatcher, error notifier, EventList.StripFollowUps).         *)
(***************************************************************************)
EXTENDS Naturals, Sequences, FiniteSets, TLC

\* ------------------------------------------------------------------ bounds
\* How many external EventLists are submitted on workItemInput.
MaxSubmit == 2
\* How many events the modules generate in total (fresh events returned by apply).
MaxNew == 1
\* Longest EventList given to StripFollowUps in StripSpec.
MaxLen == 3

\* ------------------------------------------------------------------ events
\* An Event: identity, destination ModuleID, ordered follow-ups (Events again).
Ev(i, d, f) == [id |-> i, dest |-> d, fu |-> f]

\* The registered modules (keys of genericWorkChans) and a destination nobody registered.
Mods == {"m1", "m2"}
Ghost == "ghost"

\* The module types a worker can meet in the type switch of processModuleEvents,
\* plus "proc": a module driven by doUntilErr(processEvents) with an eventProcessor.
Kinds == {"passive", "active", "other", "proc"}

\* ---------------------------------------------------------------- EventList
\* EventList.PushBackList: back-concatenation.
PushBackList(l, more) == l \o more

\* events.Strip: the event with its follow-up field cleared (one level only).
StripEvent(e) == [e EXCEPT !.fu = <<>>]

RECURSIVE StripFollowUpsDeep(_)
\* Faulty StripFollowUps: flattens the follow-ups of follow-ups too.
StripFollowUpsDeep(l) ==
    IF l = <<>> THEN [plain |-> <<>>, fu |-> <<>>]
    ELSE LET rest == StripFollowUpsDeep(Tail(l))
             sub  == StripFollowUpsDeep(Head(l).fu)
         IN [plain |-> <<StripEvent(Head(l))>> \o rest.plain,
             fu    |-> sub.plain \o sub.fu \o rest.fu]

RECURSIVE StripFollowUps(_)
\* EventList.StripFollowUps: iterate the list, push each stripped event to plain
\* and each event's follow-up list to followUps.
StripFollowUps(l) ==
    IF l = <<>> THEN [plain |-> <<>>, fu |-> <<>>]
    ELSE LET rest == StripFollowUps(Tail(l))
         IN [plain |-> <<StripEvent(Head(l))>> \o rest.plain,
             fu    |-> PushBackList(Head(l).fu, rest.fu)]

\* ------------------------------------------------------------------ errors
\* Errors are sequences of strings; wrapping (fmt.Errorf("...: %w")) prepends.
NoErr == <<>>
ErrStopped == <<"stopped">>
ModuleErr(m) == <<"module error", m>>
PanicValues == {"kapow"}

\* "module panicked: %v\nStack trace:\n%s": the error carries the panic value and a stack.
PanicErr(v) == <<"module panicked", v, "stack trace">>
\* fmt.Errorf("unknown module type: %T", m)
UnknownTypeErr(m) == <<"unknown module type", m>>
\* fmt.Errorf("could not process events: %w", err)
WrapProcessErr(e) == <<"could not process events">> \o e
\* The dispatcher's error for an event whose destination has no registered module.
UnknownDestinationErr(d) == <<"unknown destination", d>>

\* ------------------------------------------------------------------- state
VARIABLES
    modType,      \* ModuleID -> kind of the module registered under it
    ctxDone,      \* the node's context has been cancelled
    wen,          \* workErrNotifier: [err: latched error, exit: ExitC closed]
    failLog,      \* history: the calls of workErrNotifier.Fail, in order
    pc,           \* worker position: "read", "apply", "write", "fail", "done"
    plainEvents,  \* per worker: the stripped input list being processed
    eventsOut,    \* per worker: the pending output list
    werr,         \* per worker: the error its work function returned
    dpc,          \* dispatcher position: "read", "fwd", "fail", "done"
    parts,        \* dispatcher: ModuleID -> partition still to be forwarded
    derr,         \* dispatcher: the error it is about to report
    wiiSent,      \* history: the lists sent on workItemInput, in order
    readLog,      \* history: per module, the lists read from its inbound channel
    intercepted,  \* history: per module, the lists handed to the interceptor
    steps,        \* history: per module, the finished processing steps
    submitted,    \* which external input lists have been submitted
    refused,      \* history: the submit and step calls that returned an error
    asyncOut,     \* per module: the lists an active module has produced on its own output
    newCount,     \* how many fresh events the modules have generated
    runRet,       \* run: [done: has returned, err: the error it returned]
    twin,         \* EmptySpec: [on, pending: the workers whose twin, in a node that
                  \* sends empty output lists too, is blocked writing an empty list]
    sL, sP, sF, sPc  \* StripSpec: input list, plain, followUps, position

vars == <<modType, ctxDone, wen, failLog, pc, plainEvents, eventsOut, werr,
          dpc, parts, derr, wiiSent, readLog, intercepted, steps, submitted, refused, asyncOut,
          newCount, runRet, twin, sL, sP, sF, sPc>>

nodeVars == <<modType, ctxDone, wen, failLog, pc, plainEvents, eventsOut, werr,
              dpc, parts, derr, wiiSent, readLog, intercepted, steps, submitted, refused, asyncOut,
              newCount, runRet, twin>>
stripVars == <<sL, sP, sF, sPc>>

\* ------------------------------------------------------------ external input
\* The EventLists the environment may submit (each at most once; ids are unique).
InputLists ==
    << << Ev(1, "m1", << Ev(2, "m2", << Ev(3, "m1", <<>>) >>) >>) >>,
       << Ev(4, "m1", <<>>), Ev(5, "m1", << Ev(6, "m2", <<>>) >>) >>,
       << Ev(7, "m2", <<>>), Ev(8, Ghost, <<>>) >> >>

\* Identity of the k-th event generated by a module.
FreshId(k) == Len(InputLists) * Len(InputLists) + k

\* ----------------------------------------------------------- error notifier
\* workErrNotifier.Fail: set the latch iff unset and close ExitC.
Fail(n, err) ==
    IF n.err # NoErr THEN n ELSE [err |-> err, exit |-> TRUE]

\* --------------------------------------------------------------- dispatcher
\* Faulty Partition: the split does not keep the order of the events.
PartitionUnstable(l, m) ==
    LET p == SelectSeq(l, LAMBDA e : e.dest = m)
    IN [i \in DOMAIN p |-> p[Len(p) + 1 - i]]

\* Stable split by destination: the events of l addressed to m, in order.
Partition(l, m) == SelectSeq(l, LAMBDA e : e.dest = m)

\* The destinations of l that have no registered module.
Unroutable(l) == {l[i].dest : i \in DOMAIN l} \ Mods

\* Faulty DispAccept: events with an unknown destination are silently dropped.
DispAcceptDrop(l) ==
    /\ parts' = [m \in Mods |-> Partition(l, m)]
    /\ dpc' = IF \A m \in Mods : Partition(l, m) = <<>> THEN "read" ELSE "fwd"
    /\ derr' = derr

\* The dispatcher takes list l off workItemInput: it fails on an unknown
\* destination, otherwise it holds the partitions to forward.
DispAccept(l) ==
    IF Unroutable(l) # {}
    THEN /\ dpc' = "fail"
         /\ derr' = UnknownDestinationErr(CHOOSE d \in Unroutable(l) : TRUE)
         /\ parts' = parts
    ELSE /\ parts' = [m \in Mods |-> Partition(l, m)]
         /\ dpc' = IF l = <<>> THEN "read" ELSE "fwd"
         /\ derr' = derr

\* ------------------------------------------------------------------ workers
\* The signals that are ready in a multi-way wait.
Signalled == (IF ctxDone THEN {"ctx"} ELSE {}) \cup (IF wen.exit THEN {"exit"} ELSE {})

\* What the read select waits on besides the inbound channel:
\* processModuleEvents waits on ctx.Done() and ExitC(), processEvents on ctx.Done() only.
ReadWaits(kind) == IF kind = "proc" THEN {"ctx"} ELSE {"ctx", "exit"}

\* Faulty WriteWaits: the write select does not watch the context.
WriteWaitsNoCtx(kind) == IF kind = "proc" THEN {} ELSE {"exit"}

\* What the write select waits on besides workItemInput.
WriteWaits(kind) == IF kind = "proc" THEN {"ctx"} ELSE {"ctx", "exit"}

\* Faulty StoppedResult: processModuleEvents returns ErrStopped as well.
StoppedResultAlways(kind) == ErrStopped

\* What the work function returns when a stop branch of a select is taken:
\* processModuleEvents returns (nil, false), processEvents returns ErrStopped.
StoppedResult(kind) == IF kind = "proc" THEN ErrStopped ELSE NoErr

\* Faulty AfterReturn: after an error the worker calls its work function again.
AfterReturnRetry(err) == IF err # NoErr THEN "read" ELSE "done"

\* Where the worker goes once its work function has returned err: a non-nil error
\* is handed to Fail (doUntilErr and the loop around processModuleEvents alike).
AfterReturn(err) == IF err # NoErr THEN "fail" ELSE "done"

\* Faulty AfterIntercept: the worker writes its output (the follow-ups) first.
AfterInterceptWrite == "write"

\* The worker's position after strip and intercept: the module is invoked next.
AfterIntercept == "apply"

\* Faulty InterceptArg: the interceptor is handed the list as read, follow-ups attached.
InterceptArgRaw(eventsIn, plain) == eventsIn

\* The list handed to the interceptor: the stripped events, not the list read.
InterceptArg(eventsIn, plain) == plain

RECURSIVE Reverse(_)
Reverse(l) == IF l = <<>> THEN <<>> ELSE Append(Reverse(Tail(l)), Head(l))
\* Faulty ApplyArg: the module is handed the events in reverse order.
ApplyArgReversed(plain) == Reverse(plain)

\* The list handed to the module's ApplyEvents.
ApplyArg(plain) == plain

\* The outcome of a module call: ok with the new events, an error, or a panic.
Ok(new) == [res |-> "ok", new |-> new, val |-> ""]
Failed == [res |-> "err", new |-> <<>>, val |-> ""]
Panicked(v) == [res |-> "panic", new |-> <<>>, val |-> v]

\* The event lists a module may return: nothing, or one fresh event.
NewLists ==
    {<<>>} \cup (IF newCount < MaxNew
                 THEN {<<Ev(FreshId(newCount), d, <<>>)>> : d \in Mods}
                 ELSE {})

\* The outcomes a module of the given kind can produce. The new events of an
\* active module are those it produces on its own output for the input.
Outcomes(kind) ==
    CASE kind = "passive" -> {Ok(n) : n \in NewLists} \cup {Failed}
                             \cup {Panicked(v) : v \in PanicValues}
      [] kind = "active"  -> {Ok(n) : n \in NewLists} \cup {Failed}
      [] kind = "proc"    -> {Ok(n) : n \in NewLists} \cup {Failed}
      [] OTHER            -> {Ok(<<>>)}

\* Faulty safelyApplyEvents: the panic is recovered but no error is set.
safelyApplyEventsSwallow(m, o) ==
    CASE o.res = "panic" -> [new |-> <<>>, err |-> NoErr]
      [] o.res = "err"   -> [new |-> <<>>, err |-> ModuleErr(m)]
      [] OTHER           -> [new |-> o.new, err |-> NoErr]

\* safelyApplyEvents: the module's result, a panic recovered into an error.
safelyApplyEvents(m, o) ==
    CASE o.res = "panic" -> [new |-> <<>>, err |-> PanicErr(o.val)]
      [] o.res = "err"   -> [new |-> <<>>, err |-> ModuleErr(m)]
      [] OTHER           -> [new |-> o.new, err |-> NoErr]

\* Faulty processModuleEvents: the events an active module produces are added
\* to the worker's output list as those of a passive module are.
processModuleEventsActiveAppends(kind, m, followUps, o) ==
    CASE kind = "passive" ->
            LET r == safelyApplyEvents(m, o)
            IN IF r.err # NoErr THEN [out |-> <<>>, err |-> r.err]
               ELSE [out |-> PushBackList(followUps, r.new), err |-> NoErr]
      [] kind = "active" ->
            IF o.res = "err" THEN [out |-> <<>>, err |-> ModuleErr(m)]
            ELSE [out |-> PushBackList(followUps, o.new), err |-> NoErr]
      [] OTHER -> [out |-> <<>>, err |-> UnknownTypeErr(m)]

\* Faulty processModuleEvents: a passive module's new events are put before the
\* follow-ups.
processModuleEventsNewFirst(kind, m, followUps, o) ==
    CASE kind = "passive" ->
            LET r == safelyApplyEvents(m, o)
            IN IF r.err # NoErr THEN [out |-> <<>>, err |-> r.err]
               ELSE [out |-> PushBackList(r.new, followUps), err |-> NoErr]
      [] kind = "active" ->
            IF o.res = "err" THEN [out |-> <<>>, err |-> ModuleErr(m)]
            ELSE [out |-> followUps, err |-> NoErr]
      [] OTHER -> [out |-> <<>>, err |-> UnknownTypeErr(m)]

\* Faulty processModuleEvents: the error of the module call is dropped and the
\* follow-ups go out all the same.
processModuleEventsIgnoreErr(kind, m, followUps, o) ==
    CASE kind = "passive" ->
            [out |-> PushBackList(followUps, safelyApplyEvents(m, o).new), err |-> NoErr]
      [] kind = "active" -> [out |-> followUps, err |-> NoErr]
      [] OTHER -> [out |-> followUps, err |-> NoErr]

\* The type switch of processModuleEvents: the output list and the error of the step.
processModuleEvents(kind, m, followUps, o) ==
    CASE kind = "passive" ->
            LET r == safelyApplyEvents(m, o)
            IN IF r.err # NoErr THEN [out |-> <<>>, err |-> r.err]
               ELSE [out |-> PushBackList(followUps, r.new), err |-> NoErr]
      [] kind = "active" ->
            IF o.res = "err" THEN [out |-> <<>>, err |-> ModuleErr(m)]
            ELSE [out |-> followUps, err |-> NoErr]
      [] OTHER -> [out |-> <<>>, err |-> UnknownTypeErr(m)]

\* Faulty processEvents: the output is the new events, the follow-ups are lost.
processEventsDropFollowUps(m, followUps, o) ==
    IF o.res = "err" THEN [out |-> <<>>, err |-> WrapProcessErr(ModuleErr(m))]
    ELSE [out |-> o.new, err |-> NoErr]

\* processEvents: call processFunc, wrap its error, merge follow-ups and new events.
processEvents(m, followUps, o) ==
    IF o.res = "err" THEN [out |-> <<>>, err |-> WrapProcessErr(ModuleErr(m))]
    ELSE [out |-> PushBackList(followUps, o.new), err |-> NoErr]

\* What an active module that accepted its input puts on its own output channel.
AsyncProduced(kind, err, o) ==
    IF kind = "active" /\ err = NoErr /\ o.new # <<>> THEN <<o.new>> ELSE <<>>

\* How the step is recorded in the history.
StepRes(kind, o) == IF kind = "other" THEN "notype" ELSE o.res

\* Faulty AfterProcess: the worker goes back to its read without writing.
AfterProcessAlwaysRead(out) == "read"

\* Faulty AfterProcess: the output list is written even when it is empty.
AfterProcessAlwaysWrite(out) == "write"

\* The position after a successful step: an empty output list is not sent.
AfterProcess(out) == IF Len(out) = 0 THEN "read" ELSE "write"

\* ------------------------------------------------------------------ actions
AllDone == dpc = "done" /\ \A m \in Mods : pc[m] = "done"

NodeInit ==
    /\ modType \in [Mods -> Kinds]
    /\ ctxDone = FALSE
    /\ wen = [err |-> NoErr, exit |-> FALSE]
    /\ failLog = <<>>
    /\ pc = [m \in Mods |-> "read"]
    /\ plainEvents = [m \in Mods |-> <<>>]
    /\ eventsOut = [m \in Mods |-> <<>>]
    /\ werr = [m \in Mods |-> NoErr]
    /\ dpc = "read"
    /\ parts = [m \in Mods |-> <<>>]
    /\ derr = NoErr
    /\ wiiSent = <<>>
    /\ readLog = [m \in Mods |-> <<>>]
    /\ intercepted = [m \in Mods |-> <<>>]
    /\ steps = [m \in Mods |-> <<>>]
    /\ submitted = {}
    /\ refused = {}
    /\ asyncOut = [m \in Mods |-> <<>>]
    /\ newCount = 0
    /\ runRet = [done |-> FALSE, err |-> NoErr]
    /\ sL = <<>> /\ sP = <<>> /\ sF = <<>> /\ sPc = "idle"

Init == NodeInit /\ twin = [on |-> FALSE, pending |-> {}]

\* The error of a submit or step call made after the node has terminated.
ErrTerminated == <<"node terminated">>

\* Faulty SubmitErr: the call does not look at whether the node has terminated.
SubmitErrNil(terminated) == NoErr

\* What submit and step return before they touch a channel.
SubmitErr(terminated) == IF terminated THEN ErrTerminated ELSE NoErr

\* An external EventList enters the node: the call fails at once if run has
\* returned, otherwise the list is handed to the dispatcher, which takes the
\* lists of submit and step into the same flow.
Ingress(via, i) ==
    /\ i \notin submitted
    /\ \A r \in refused : r.i # i
    /\ Cardinality(submitted) + Cardinality(refused) < MaxSubmit
    /\ IF SubmitErr(runRet.done) # NoErr
       THEN /\ refused' = refused \cup {[via |-> via, i |-> i, err |-> SubmitErr(runRet.done)]}
            /\ UNCHANGED <<submitted, wiiSent, dpc, parts, derr>>
       ELSE /\ dpc = "read"
            /\ submitted' = submitted \cup {i}
            /\ wiiSent' = Append(wiiSent, [from |-> "ext", list |-> InputLists[i]])
            /\ DispAccept(InputLists[i])
            /\ refused' = refused
    /\ UNCHANGED <<modType, ctxDone, wen, failLog, pc, plainEvents, eventsOut, werr,
                   readLog, intercepted, steps, newCount, runRet, twin, asyncOut>>
    /\ UNCHANGED stripVars

\* submit: the list goes to the dispatcher on workItemInput.
Submit(i) == Ingress("ext", i)

\* step: the list goes to the dispatcher on debugIn, into the same flow.
Step(i) == Ingress("step", i)

\* The node's context is cancelled.
Cancel ==
    /\ ~ctxDone
    /\ ~runRet.done
    /\ ctxDone' = TRUE
    /\ UNCHANGED <<modType, wen, failLog, pc, plainEvents, eventsOut, werr, dpc, parts,
                   derr, wiiSent, readLog, intercepted, steps, submitted, refused, asyncOut, newCount, runRet, twin>>
    /\ UNCHANGED stripVars

\* Faulty Receiving: the inbound channel takes a list while the worker is busy.
ReceivingAlways(m) == TRUE

\* The inbound channel of m is unbuffered: a send on it completes only while m's
\* worker is at the receive of its read select.
Receiving(m) == pc[m] = "read"

\* The dispatcher hands the partition of m to m's worker over the unbuffered
\* channel; the worker strips the follow-ups and intercepts the plain events.
DispForward(m) ==
    /\ dpc = "fwd"
    /\ parts[m] # <<>>
    /\ Receiving(m)
    /\ LET s == StripFollowUps(parts[m])
       IN /\ plainEvents' = [plainEvents EXCEPT ![m] = s.plain]
          /\ eventsOut' = [eventsOut EXCEPT ![m] = s.fu]
          /\ intercepted' = [intercepted EXCEPT ![m] =
                                 Append(@, InterceptArg(parts[m], s.plain))]
          /\ readLog' = [readLog EXCEPT ![m] = Append(@, parts[m])]
    /\ pc' = [pc EXCEPT ![m] = AfterIntercept]
    /\ parts' = [parts EXCEPT ![m] = <<>>]
    /\ dpc' = IF \A x \in Mods \ {m} : parts[x] = <<>> THEN "read" ELSE "fwd"
    /\ twin' = [twin EXCEPT !.pending = @ \ {m}]
    /\ UNCHANGED <<modType, ctxDone, wen, failLog, werr, derr, wiiSent, steps,
                   submitted, refused, asyncOut, newCount, runRet>>
    /\ UNCHANGED stripVars

\* The dispatcher observes cancellation or the exit signal and returns.
DispStop ==
    /\ dpc \in {"read", "fwd"}
    /\ Signalled # {}
    /\ dpc' = "done"
    /\ UNCHANGED <<modType, ctxDone, wen, failLog, pc, plainEvents, eventsOut, werr,
                   parts, derr, wiiSent, readLog, intercepted, steps, submitted, refused, asyncOut, newCount, runRet, twin>>
    /\ UNCHANGED stripVars

\* The dispatcher reports its error to the notifier and returns.
DispFail ==
    /\ dpc = "fail"
    /\ wen' = Fail(wen, derr)
    /\ failLog' = Append(failLog, [by |-> "dispatcher", err |-> derr])
    /\ dpc' = "done"
    /\ UNCHANGED <<modType, ctxDone, pc, plainEvents, eventsOut, werr, parts, derr,
                   wiiSent, readLog, intercepted, steps, submitted, refused, asyncOut, newCount, runRet, twin>>
    /\ UNCHANGED stripVars

\* The read select of a worker takes a stop branch.
WorkerStopRead(m) ==
    /\ pc[m] = "read"
    /\ ReadWaits(modType[m]) \cap Signalled # {}
    /\ werr' = [werr EXCEPT ![m] = StoppedResult(modType[m])]
    /\ pc' = [pc EXCEPT ![m] = AfterReturn(werr'[m])]
    /\ twin' = [twin EXCEPT !.pending = @ \ {m}]
    /\ UNCHANGED <<modType, ctxDone, wen, failLog, plainEvents, eventsOut, dpc, parts,
                   derr, wiiSent, readLog, intercepted, steps, submitted, refused, asyncOut, newCount, runRet>>
    /\ UNCHANGED stripVars

\* The module call of the step returns with outcome o.
Apply(m, o) ==
    /\ pc[m] = "apply"
    /\ LET kind == modType[m]
           r == IF kind = "proc"
                THEN processEvents(m, eventsOut[m], o)
                ELSE processModuleEvents(kind, m, eventsOut[m], o)
       IN /\ steps' = [steps EXCEPT ![m] =
                 Append(@, [plain |-> ApplyArg(plainEvents[m]), fu |-> eventsOut[m],
                            new |-> o.new, out |-> r.out, res |-> StepRes(kind, o),
                            val |-> o.val])]
          /\ twin' = IF twin.on /\ r.err = NoErr /\ r.out = <<>>
                     THEN [twin EXCEPT !.pending = @ \cup {m}]
                     ELSE twin
          /\ asyncOut' = [asyncOut EXCEPT ![m] = @ \o AsyncProduced(kind, r.err, o)]
          /\ werr' = [werr EXCEPT ![m] = r.err]
          /\ eventsOut' = [eventsOut EXCEPT ![m] = r.out]
          /\ pc' = [pc EXCEPT ![m] =
                 IF r.err # NoErr THEN AfterReturn(r.err) ELSE AfterProcess(r.out)]
    /\ plainEvents' = [plainEvents EXCEPT ![m] = <<>>]
    /\ newCount' = newCount + Len(o.new)
    /\ UNCHANGED <<modType, ctxDone, wen, failLog, dpc, parts, derr, wiiSent,
                   readLog, intercepted, submitted, refused, runRet>>
    /\ UNCHANGED stripVars

\* The worker's output list is taken by the dispatcher on workItemInput.
Emit(m) ==
    /\ pc[m] = "write"
    /\ dpc = "read"
    /\ wiiSent' = Append(wiiSent, [from |-> m, list |-> eventsOut[m]])
    /\ DispAccept(eventsOut[m])
    /\ eventsOut' = [eventsOut EXCEPT ![m] = <<>>]
    /\ pc' = [pc EXCEPT ![m] = "read"]
    /\ UNCHANGED <<modType, ctxDone, wen, failLog, plainEvents, werr, readLog, intercepted,
                   steps, submitted, refused, asyncOut, newCount, runRet, twin>>
    /\ UNCHANGED stripVars

\* The write select of a worker takes a stop branch: the output is abandoned.
WorkerStopWrite(m) ==
    /\ pc[m] = "write"
    /\ WriteWaits(modType[m]) \cap Signalled # {}
    /\ werr' = [werr EXCEPT ![m] = StoppedResult(modType[m])]
    /\ eventsOut' = [eventsOut EXCEPT ![m] = <<>>]
    /\ pc' = [pc EXCEPT ![m] = AfterReturn(werr'[m])]
    /\ UNCHANGED <<modType, ctxDone, wen, failLog, plainEvents, dpc, parts, derr,
                   wiiSent, readLog, intercepted, steps, submitted, refused, asyncOut, newCount, runRet, twin>>
    /\ UNCHANGED stripVars

\* Faulty doUntilErr: the error is written into the notifier whatever it holds.
doUntilErrOverwrite(m) ==
    /\ pc[m] = "fail"
    /\ wen' = [err |-> werr[m], exit |-> TRUE]
    /\ failLog' = Append(failLog, [by |-> m, err |-> werr[m]])
    /\ pc' = [pc EXCEPT ![m] = "done"]
    /\ UNCHANGED <<modType, ctxDone, plainEvents, eventsOut, werr, dpc, parts, derr,
                   wiiSent, readLog, intercepted, steps, submitted, refused, asyncOut, newCount, runRet, twin>>
    /\ UNCHANGED stripVars

\* doUntilErr: the work function returned a non-nil error; Fail it and return.
doUntilErr(m) ==
    /\ pc[m] = "fail"
    /\ wen' = Fail(wen, werr[m])
    /\ failLog' = Append(failLog, [by |-> m, err |-> werr[m]])
    /\ pc' = [pc EXCEPT ![m] = "done"]
    /\ UNCHANGED <<modType, ctxDone, plainEvents, eventsOut, werr, dpc, parts, derr,
                   wiiSent, readLog, intercepted, steps, submitted, refused, asyncOut, newCount, runRet, twin>>
    /\ UNCHANGED stripVars

\* run returns the latched error once every task has returned.
RunReturn ==
    /\ AllDone
    /\ ~runRet.done
    /\ runRet' = [done |-> TRUE, err |-> wen.err]
    /\ UNCHANGED <<modType, ctxDone, wen, failLog, pc, plainEvents, eventsOut, werr, dpc,
                   parts, derr, wiiSent, readLog, intercepted, steps, submitted, refused, asyncOut, newCount,
                   twin>>
    /\ UNCHANGED stripVars

WorkerNext(m) ==
    \/ WorkerStopRead(m)
    \/ \E o \in Outcomes(modType[m]) : Apply(m, o)
    \/ Emit(m)
    \/ WorkerStopWrite(m)
    \/ doUntilErr(m)

DispNext ==
    \/ \E m \in Mods : DispForward(m)
    \/ DispStop
    \/ DispFail

\* The core reads a list from an active module's output and hands it to the
\* dispatcher on workItemInput.
ActiveOutput(m) ==
    /\ asyncOut[m] # <<>>
    /\ dpc = "read"
    /\ Signalled = {}
    /\ wiiSent' = Append(wiiSent, [from |-> "async", list |-> Head(asyncOut[m])])
    /\ DispAccept(Head(asyncOut[m]))
    /\ asyncOut' = [asyncOut EXCEPT ![m] = Tail(@)]
    /\ UNCHANGED <<modType, ctxDone, wen, failLog, pc, plainEvents, eventsOut, werr,
                   readLog, intercepted, steps, submitted, refused, newCount, runRet, twin>>
    /\ UNCHANGED stripVars

Next ==
    \/ \E i \in DOMAIN InputLists : Submit(i)
    \/ \E i \in DOMAIN InputLists : Step(i)
    \/ Cancel
    \/ DispNext
    \/ \E m \in Mods : WorkerNext(m)
    \/ \E m \in Mods : ActiveOutput(m)
    \/ RunReturn

Spec == Init /\ [][Next]_vars

\* In a node that sends its empty output lists too, the worker's empty list is
\* taken by the dispatcher, which fans out nothing.
TwinEmit(m) ==
    /\ twin.on
    /\ m \in twin.pending
    /\ dpc = "read"
    /\ twin' = [twin EXCEPT !.pending = @ \ {m}]
    /\ UNCHANGED <<modType, ctxDone, wen, failLog, pc, plainEvents, eventsOut, werr, dpc,
                   parts, derr, wiiSent, readLog, intercepted, steps, submitted, refused, asyncOut, newCount,
                   runRet>>
    /\ UNCHANGED stripVars

\* The node next to its twin that sends empty output lists.
EmptyInit == NodeInit /\ twin = [on |-> TRUE, pending |-> {}]
EmptyNext == Next \/ \E m \in Mods : TwinEmit(m)
EmptySpec == EmptyInit /\ [][EmptyNext]_vars

\* Fair scheduling of the tasks: the dispatcher, every worker and run keep taking
\* steps while they can; the environment (Submit, Cancel) is under no obligation.
FairSpec ==
    /\ Spec
    /\ WF_vars(DispNext)
    /\ \A m \in Mods : WF_vars(WorkerNext(m))
    /\ \A m \in Mods : WF_vars(ActiveOutput(m))
    /\ WF_vars(RunReturn)

\* ------------------------------------------------- StripFollowUps on its own
\* The events StripSpec builds its lists from: plain ones, ones with follow-ups,
\* and ones whose follow-ups carry follow-ups themselves.
StripEvents ==
    LET a == Ev(1, "m1", <<>>)
        b == Ev(2, "m2", <<>>)
        c == Ev(3, "m1", <<b>>)
        d == Ev(4, "m2", <<a, b>>)
    IN {a, b, c, d, Ev(5, "m1", <<c>>), Ev(6, "m2", <<d, a>>)}

StripLists == UNION {[1..n -> StripEvents] : n \in 0..MaxLen}

StripInit ==
    /\ sL \in StripLists
    /\ sP = <<>> /\ sF = <<>> /\ sPc = "start"
    /\ modType = [m \in Mods |-> "passive"]
    /\ ctxDone = FALSE
    /\ wen = [err |-> NoErr, exit |-> FALSE]
    /\ failLog = <<>>
    /\ pc = [m \in Mods |-> "read"]
    /\ plainEvents = [m \in Mods |-> <<>>]
    /\ eventsOut = [m \in Mods |-> <<>>]
    /\ werr = [m \in Mods |-> NoErr]
    /\ dpc = "read"
    /\ parts = [m \in Mods |-> <<>>]
    /\ derr = NoErr
    /\ wiiSent = <<>>
    /\ readLog = [m \in Mods |-> <<>>]
    /\ intercepted = [m \in Mods |-> <<>>]
    /\ steps = [m \in Mods |-> <<>>]
    /\ submitted = {}
    /\ refused = {}
    /\ asyncOut = [m \in Mods |-> <<>>]
    /\ newCount = 0
    /\ runRet = [done |-> FALSE, err |-> NoErr]
    /\ twin = [on |-> FALSE, pending |-> {}]

\* plainEvents, followUps := eventsIn.StripFollowUps()
StripApply ==
    /\ sPc = "start"
    /\ sP' = StripFollowUps(sL).plain
    /\ sF' = StripFollowUps(sL).fu
    /\ sPc' = "done"
    /\ sL' = sL
    /\ UNCHANGED nodeVars

StripNext == StripApply

StripSpec == StripInit /\ [][StripNext]_vars

\* ---------------------------------------------------------- history helpers
RECURSIVE Concat(_)
\* The concatenation of a sequence of lists.
Concat(ls) == IF ls = <<>> THEN <<>> ELSE Head(ls) \o Concat(Tail(ls))

Range(f) == {f[i] : i \in DOMAIN f}

\* The events sent on workItemInput so far, in order (top level only).
SentEvents == Concat([i \in DOMAIN wiiSent |-> wiiSent[i].list])
SentIds == {e.id : e \in Range(SentEvents)}

RECURSIVE Deep(_)
\* The events of a list together with all their nested follow-ups.
Deep(l) == IF l = <<>> THEN {} ELSE {Head(l)} \cup Deep(Head(l).fu) \cup Deep(Tail(l))

\* The ids of the events whose module call has returned (with or without error).
StepEvents(m, results) ==
    UNION {Range(steps[m][k].plain) :
             k \in {j \in DOMAIN steps[m] : steps[m][j].res \in results}}
ReturnedIds == {e.id : e \in UNION {StepEvents(m, {"ok", "err", "panic"}) : m \in Mods}}

IsPrefix(a, b) == Len(a) <= Len(b) /\ \A i \in DOMAIN a : a[i] = b[i]

\* --------------------------------------------------------------- claims
\* C10. Strip-follow-ups law: strip(L) = (p, f) with len(p) = len(L), p the events
\* of L in order with the follow-up field cleared, f the concatenation in carrier
\* order of the events' direct follow-up lists, each follow-up left as it was (its
\* own follow-ups still attached).
FollowUpOffset(l, i) == Len(Concat([k \in 1..(i - 1) |-> l[k].fu]))
StripLaw ==
    sPc = "done" =>
        /\ Len(sP) = Len(sL)
        /\ \A i \in DOMAIN sL :
              /\ sP[i].id = sL[i].id /\ sP[i].dest = sL[i].dest /\ sP[i].fu = <<>>
              /\ \A j \in DOMAIN sL[i].fu : sF[FollowUpOffset(sL, i) + j] = sL[i].fu[j]
        /\ Len(sF) = FollowUpOffset(sL, Len(sL) + 1)
\* Witness of C10: a list of two events or more was stripped and a follow-up that
\* carries follow-ups of its own came out.
StripLawWitness ==
    /\ sPc = "done" /\ Len(sL) >= 2
    /\ \E j \in DOMAIN sF : sF[j].fu # <<>>

\* C1. Follow-up causality: a follow-up of an event X is sent to workItemInput
\* (and so seen by the dispatcher or a module) only after the module call on X
\* has returned in X's worker.
FollowUpCausality ==
    \A x \in Deep(SentEvents) :
        \A y \in Range(x.fu) : y.id \in SentIds => x.id \in ReturnedIds
\* Witness of C1: a worker has sent the follow-up of an event it processed.
FollowUpCausalityWitness ==
    \E x \in Deep(SentEvents) :
        \E y \in Range(x.fu) : y.id \in SentIds /\ x.id \in ReturnedIds

\* C2. Ordering within a module: what module M has been handed, list after list,
\* is a prefix of the events addressed to M in the concatenation of the lists
\* sent on workItemInput, in that order; so two lists L1, L2 for M alone are
\* observed as L1 followed by L2, each in its own order.
AppliedEvents(m) == Concat([k \in DOMAIN steps[m] |-> steps[m][k].plain])
SentTo(m) == Partition(SentEvents, m)
OrderingWithinModule ==
    \A m \in Mods :
        IsPrefix(AppliedEvents(m), [i \in DOMAIN SentTo(m) |-> StripEvent(SentTo(m)[i])])
\* Witness of C2: two lists addressed to m1 alone were sent one after the other,
\* the second of two events, and m1 has been handed all their events.
OrderingWitness ==
    \E i, j \in DOMAIN wiiSent :
        /\ i < j
        /\ \A e \in Range(wiiSent[i].list) \cup Range(wiiSent[j].list) : e.dest = "m1"
        /\ Len(wiiSent[j].list) >= 2
        /\ Len(AppliedEvents("m1")) >= Len(wiiSent[i].list) + Len(wiiSent[j].list)

\* C3. Follow-ups are suppressed on failure: when a step fails (module error,
\* recovered panic, unknown module type), none of the follow-ups stripped from
\* its list is ever sent to workItemInput, nor read by any worker.
FailedSteps(m) == {k \in DOMAIN steps[m] : steps[m][k].res # "ok"}
ReadIds == {e.id : e \in UNION {Range(Concat(readLog[m])) : m \in Mods}}
FollowUpsSuppressedOnFailure ==
    \A m \in Mods : \A k \in FailedSteps(m) :
        \A y \in Range(steps[m][k].fu) : y.id \notin SentIds /\ y.id \notin ReadIds
\* Witness of C3: a step that carried follow-ups failed and its worker returned.
SuppressedWitness ==
    \E m \in Mods : \E k \in FailedSteps(m) :
        steps[m][k].fu # <<>> /\ pc[m] = "done"

\* C4. First fatal error wins: the latched error is unset or the first error
\* passed to Fail, later Fail calls leave it and the exit signal as they are,
\* and run returns the latched error.
FirstFatalErrorWins ==
    /\ wen.err = (IF failLog = <<>> THEN NoErr ELSE failLog[1].err)
    /\ wen.exit = (failLog # <<>>)
    /\ runRet.done => runRet.err = wen.err
\* Witness of C4: Fail was called a second time with another error, and run returned.
FirstFatalErrorWitness ==
    /\ Len(failLog) >= 2
    /\ failLog[2].err # failLog[1].err
    /\ runRet.done /\ runRet.err = failLog[1].err

\* No processing step and no dispatch has failed.
NoFailure == derr = NoErr /\ \A m \in Mods : FailedSteps(m) = {}

\* C5 as stated. Stopped is never latched: ErrStopped is never passed to the
\* error notifier, and after a cancellation with no failure run returns no error.
StoppedNeverLatched ==
    /\ \A i \in DOMAIN failLog : failLog[i].err # ErrStopped
    /\ (runRet.done /\ NoFailure) => runRet.err = NoErr

\* C5 as amended. A worker running processModuleEvents that stops returns a nil
\* error and passes nothing to the notifier; ErrStopped is passed to Fail only by
\* doUntilErr, for a work function (processEvents) that saw the context
\* cancelled. After a cancellation with no failure the latched error is unset
\* or ErrStopped, and run returns ErrStopped exactly when such a worker exists.
StoppedLatchedOnlyByDoUntilErr ==
    /\ \A i \in DOMAIN failLog :
          failLog[i].err = ErrStopped =>
              /\ failLog[i].by \in Mods
              /\ modType[failLog[i].by] = "proc"
              /\ ctxDone
    /\ NoFailure => wen.err \in {NoErr, ErrStopped}
    /\ (runRet.done /\ NoFailure) =>
          runRet.err = (IF \E m \in Mods : modType[m] = "proc" THEN ErrStopped ELSE NoErr)
\* Witness of C5: run returned ErrStopped after a cancellation with no failure,
\* next to a processModuleEvents worker that stopped without calling Fail.
StoppedLatchedWitness ==
    /\ runRet.done /\ NoFailure /\ runRet.err = ErrStopped
    /\ \E m \in Mods : modType[m] = "passive" /\ steps[m] # <<>>

\* C6. Termination on cancellation: once the context is cancelled, the dispatcher
\* and every worker eventually return, also those blocked reading an inbound
\* channel or writing to workItemInput (fair scheduling, module calls return).
CancelLeadsToReturn == ctxDone ~> AllDone
\* The worker of m gave up an output list it was writing.
Abandoned(m) ==
    Cardinality({i \in DOMAIN wiiSent : wiiSent[i].from = m})
        < Cardinality({k \in DOMAIN steps[m] :
                          steps[m][k].res = "ok" /\ steps[m][k].out # <<>>})
\* Witness of C6: after a cancellation with no failure every task has returned,
\* one worker having given up writing its output and another never having read
\* a list.
CancelWitness ==
    /\ ctxDone /\ AllDone /\ NoFailure
    /\ \E m \in Mods : Abandoned(m) /\ \E x \in Mods \ {m} : steps[x] = <<>>

\* C7. The exit signal is observed in every blocking wait of a worker routine
\* (processModuleEvents and processEvents), so once an error is latched every
\* task eventually returns even if the context is never cancelled.
ExitLeadsToReturn == wen.exit ~> AllDone

\* C8. Panic isolation: a panic with value v in a passive module's apply ends
\* the step with an error carrying v; the worker goes on to Fail and returns,
\* the error is latched if none was before, and the step emits no output.
CountSent(m) == Cardinality({i \in DOMAIN wiiSent : wiiSent[i].from = m})
CountOk(m) == Cardinality({k \in DOMAIN steps[m] : steps[m][k].res = "ok"})
PanicIsolation ==
    \A m \in Mods : \A k \in DOMAIN steps[m] :
        steps[m][k].res = "panic" =>
            /\ k = Len(steps[m])
            /\ pc[m] \in {"fail", "done"}
            /\ werr[m] # NoErr
            /\ \E i \in DOMAIN werr[m] : werr[m][i] = steps[m][k].val
            /\ steps[m][k].out = <<>> /\ eventsOut[m] = <<>>
            /\ CountSent(m) <= CountOk(m)
            /\ pc[m] = "done" =>
                  /\ \E i \in DOMAIN failLog : failLog[i] = [by |-> m, err |-> werr[m]]
                  /\ failLog[1].by = m => wen.err = werr[m]
\* Witness of C8: a step with follow-ups panicked, its worker returned and the
\* latched error carries the panic value.
PanicWitness ==
    \E m \in Mods : \E k \in DOMAIN steps[m] :
        /\ steps[m][k].res = "panic" /\ steps[m][k].fu # <<>>
        /\ pc[m] = "done"
        /\ \E i \in DOMAIN wen.err : wen.err[i] = steps[m][k].val

\* C9. Interceptor transparency: the interceptor is handed every list the worker
\* read, stripped (same events, same order, no follow-ups), before the module is
\* invoked on it; the lists the module was invoked on are a prefix of the
\* intercepted ones, at most the list in progress behind, and the same lists
\* when no step has failed and no module call is pending.
Handed(m) ==
    LET called == SelectSeq(steps[m], LAMBDA st : st.res # "notype")
    IN [k \in DOMAIN called |-> called[k].plain]
InterceptorTransparency ==
    \A m \in Mods :
        /\ Len(intercepted[m]) = Len(readLog[m])
        /\ \A k \in DOMAIN intercepted[m] :
              /\ Len(intercepted[m][k]) = Len(readLog[m][k])
              /\ \A i \in DOMAIN intercepted[m][k] :
                    /\ intercepted[m][k][i].id = readLog[m][k][i].id
                    /\ intercepted[m][k][i].dest = readLog[m][k][i].dest
                    /\ intercepted[m][k][i].fu = <<>>
        /\ IsPrefix(Handed(m), intercepted[m])
        /\ Len(intercepted[m]) <= Len(Handed(m)) + 1
        /\ pc[m] = "apply" => intercepted[m][Len(intercepted[m])] = plainEvents[m]
        /\ (pc[m] # "apply" /\ FailedSteps(m) = {}) => Handed(m) = intercepted[m]
\* Witness of C9: a module was invoked on two lists, one read with follow-ups
\* attached, and every step succeeded.
InterceptorWitness ==
    \E m \in Mods :
        /\ Len(Handed(m)) >= 2 /\ FailedSteps(m) = {} /\ pc[m] = "read"
        /\ \E k \in DOMAIN readLog[m] : \E i \in DOMAIN readLog[m][k] :
              readLog[m][k][i].fu # <<>>

\* The lists worker m has sent on workItemInput, and the non-empty output lists
\* of its successful steps, both in order.
SentBy(m) ==
    LET mine == SelectSeq(wiiSent, LAMBDA w : w.from = m)
    IN [i \in DOMAIN mine |-> mine[i].list]
NonEmptyOuts(m) ==
    LET full == SelectSeq(steps[m], LAMBDA st : st.res = "ok" /\ st.out # <<>>)
    IN [i \in DOMAIN full |-> full[i].out]

SendsIffNonEmpty ==
    \A m \in Mods :
        /\ \A i \in DOMAIN SentBy(m) : SentBy(m)[i] # <<>>
        /\ IsPrefix(SentBy(m), NonEmptyOuts(m))
        /\ pc[m] \in {"read", "apply"} => SentBy(m) = NonEmptyOuts(m)
        /\ pc[m] = "write" =>
              /\ eventsOut[m] # <<>>
              /\ Len(NonEmptyOuts(m)) = Len(SentBy(m)) + 1
              /\ NonEmptyOuts(m)[Len(NonEmptyOuts(m))] = eventsOut[m]
\* A worker dropped an empty output list, went on to another step, and has sent
\* a non-empty list as well.
SendsIffNonEmptyWitness ==
    \E m \in Mods :
        /\ \E k \in DOMAIN steps[m] :
              k < Len(steps[m]) /\ steps[m][k].res = "ok" /\ steps[m][k].out = <<>>
        /\ SentBy(m) # <<>>

\* C12. Unknown destination is fatal: once a list holding an event whose
\* destination has no registered module was read from workItemInput, the
\* dispatcher has an UnknownDestination error which it passes to Fail before it
\* returns, the event is delivered to no module, and run returns that error when
\* it is the first one passed to Fail.
UnknownDestinationFatal ==
    \A i \in DOMAIN wiiSent :
        Unroutable(wiiSent[i].list) # {} =>
            /\ dpc \in {"fail", "done"}
            /\ \E d \in Unroutable(wiiSent[i].list) : derr = UnknownDestinationErr(d)
            /\ dpc = "done" =>
                   \E k \in DOMAIN failLog : failLog[k] = [by |-> "dispatcher", err |-> derr]
            /\ \A j \in DOMAIN wiiSent[i].list :
                   wiiSent[i].list[j].dest \notin Mods => wiiSent[i].list[j].id \notin ReadIds
            /\ (runRet.done /\ failLog[1].by = "dispatcher") => runRet.err = derr
\* Witness of C12: a list with an unknown destination was sent, the dispatcher's
\* error was the first, and run returned it.
UnknownDestinationWitness ==
    /\ \E i \in DOMAIN wiiSent : Unroutable(wiiSent[i].list) # {}
    /\ runRet.done
    /\ runRet.err = UnknownDestinationErr(Ghost)

\* The events of l addressed to m, in their order in l, and the lists the
\* dispatcher has to deliver to m, in order: those of the lists sent on
\* workItemInput whose destinations are all known, the empty ones left out.
Addressed(l, m) == SelectSeq(l, LAMBDA e : e.dest = m)
Deliverable(m) ==
    LET routable == SelectSeq(wiiSent, LAMBDA w : /\ \A j \in DOMAIN w.list : w.list[j].dest \in Mods
                                                  /\ Addressed(w.list, m) # <<>>)
    IN [i \in DOMAIN routable |-> Addressed(routable[i].list, m)]

\* C13. Destination invariant of inbound channels: every event of every list
\* delivered on m's inbound channel, and so every event handed to m, has m as
\* its destination, and each delivered list is the events of one sent list
\* addressed to m in their order in that list.
DestinationInvariant ==
    \A m \in Mods :
        /\ \A k \in DOMAIN readLog[m] :
               \A j \in DOMAIN readLog[m][k] : readLog[m][k][j].dest = m
        /\ \A j \in DOMAIN AppliedEvents(m) : AppliedEvents(m)[j].dest = m
        /\ \A j \in DOMAIN plainEvents[m] : plainEvents[m][j].dest = m
        /\ IsPrefix(readLog[m], Deliverable(m))
\* Witness of C13: a list with events for both modules was sent and both of its
\* partitions were delivered, and some module was delivered a list of two events.
DestinationWitness ==
    /\ \E i \in DOMAIN wiiSent :
           \A m \in Mods :
               /\ Partition(wiiSent[i].list, m) # <<>>
               /\ Len(wiiSent[i].list) > Len(Partition(wiiSent[i].list, m))
               /\ \E k \in DOMAIN readLog[m] : readLog[m][k] = Partition(wiiSent[i].list, m)
    /\ \E m \in Mods : \E k \in DOMAIN readLog[m] : Len(readLog[m][k]) >= 2

\* At most one list read from workItemInput is in the dispatcher: while it waits
\* to read it holds nothing, and what it holds to forward is from the last list
\* sent on workItemInput.
OneListInDispatcher ==
    /\ dpc = "read" => \A m \in Mods : parts[m] = <<>>
    /\ dpc = "fwd" => /\ \E m \in Mods : parts[m] # <<>>
                      /\ \A m \in Mods :
                             parts[m] \in {<<>>, Addressed(wiiSent[Len(wiiSent)].list, m)}
\* A list is taken off workItemInput only by a dispatcher that holds nothing, and
\* a partition reaches a module only in a step its worker takes from its read.
BlockingHandOff ==
    /\ wiiSent' # wiiSent => dpc = "read" /\ \A m \in Mods : parts[m] = <<>>
    /\ \A m \in Mods :
           readLog'[m] # readLog[m] =>
               /\ pc[m] = "read" /\ pc'[m] # "read"
               /\ dpc = "fwd" /\ parts[m] # <<>>
               /\ readLog'[m] = Append(readLog[m], parts[m])
               /\ parts' = [parts EXCEPT ![m] = <<>>]
               /\ wiiSent' = wiiSent

Unoffered == {i \in DOMAIN InputLists : i \notin submitted /\ \A r \in refused : r.i # i}

\* After run has returned a submit or step call does not block: it can return,
\* and a call that was refused came after run returned and left none of its
\* events with a module or on workItemInput.
RefusedAfterRun ==
    /\ (runRet.done /\ Unoffered # {} /\ Cardinality(submitted) + Cardinality(refused) < MaxSubmit)
           => \A i \in Unoffered : ENABLED Submit(i) /\ ENABLED Step(i)
    /\ \A r \in refused :
           /\ runRet.done
           /\ r.err # NoErr
           /\ \A e \in Deep(InputLists[r.i]) : e.id \notin ReadIds \cup SentIds
\* Once run has returned no call is accepted and nothing reaches a module.
QuietAfterRun ==
    runRet.done =>
        /\ submitted' = submitted
        /\ wiiSent' = wiiSent
        /\ readLog' = readLog
        /\ steps' = steps

\* C15. At-most-once termination: after run has returned, every submit and
\* every step call fails synchronously, and no event of such a call is ever
\* delivered to a module.
AtMostOnceTermination == [](RefusedAfterRun) /\ [][QuietAfterRun]_vars
\* Witness of C15: lists were delivered, run returned, and afterwards a submit
\* or a step call was refused.
AtMostOnceWitness ==
    /\ runRet.done
    /\ \E m \in Mods : readLog[m] # <<>>
    /\ refused # {}

\* C16. Passive outbound list: when the module's apply on the stripped list
\* returns events N without error (a passive module under processModuleEvents,
\* a process function under processEvents), the step's outbound list is the
\* stripped follow-ups followed by N, and the worker sends it to workItemInput
\* exactly once, in its turn, provided it is non-empty.
PassiveOutbound ==
    \A m \in Mods :
        modType[m] \in {"passive", "proc"} =>
            /\ \A k \in DOMAIN steps[m] :
                   steps[m][k].res = "ok" =>
                       steps[m][k].out = steps[m][k].fu \o steps[m][k].new
            /\ IsPrefix(SentBy(m), NonEmptyOuts(m))
            /\ Len(NonEmptyOuts(m)) - Len(SentBy(m)) = (IF pc[m] = "write" THEN 1 ELSE 0)
                  \/ pc[m] \in {"fail", "done"}
\* Witness of C16: a passive module returned a new event in a step that had a
\* follow-up, and the worker has sent the two in one list, the follow-up first.
PassiveOutboundWitness ==
    \E m \in Mods :
        /\ modType[m] = "passive"
        /\ \E k \in DOMAIN steps[m] :
               /\ steps[m][k].res = "ok"
               /\ steps[m][k].fu # <<>> /\ steps[m][k].new # <<>>
               /\ \E i \in DOMAIN SentBy(m) :
                      SentBy(m)[i] = steps[m][k].fu \o steps[m][k].new

\* The identities of the events active module m has produced on its own output.
ProducedIds(m) == {e.id : e \in UNION {Range(steps[m][k].new) : k \in DOMAIN steps[m]}}

\* C17. Active outbound list: when an active module's submit on the stripped
\* list returns without error, the step's outbound list is the stripped
\* follow-ups alone, in their order; no list the worker sends holds an event the
\* module produced.
ActiveOutbound ==
    \A m \in Mods :
        modType[m] = "active" =>
            /\ \A k \in DOMAIN steps[m] :
                   steps[m][k].res = "ok" => steps[m][k].out = steps[m][k].fu
            /\ IsPrefix(SentBy(m), NonEmptyOuts(m))
            /\ \A i \in DOMAIN SentBy(m) :
                   \A j \in DOMAIN SentBy(m)[i] : SentBy(m)[i][j].id \notin ProducedIds(m)
            /\ \A j \in DOMAIN eventsOut[m] : eventsOut[m][j].id \notin ProducedIds(m)
\* Witness of C17: an active module produced an event in a step that had a
\* follow-up; the worker has sent the follow-up alone, and the produced event
\* has reached workItemInput from the module's own output.
ActiveOutboundWitness ==
    \E m \in Mods :
        /\ modType[m] = "active"
        /\ \E k \in DOMAIN steps[m] :
               /\ steps[m][k].res = "ok"
               /\ steps[m][k].fu # <<>> /\ steps[m][k].new # <<>>
               /\ \E i \in DOMAIN SentBy(m) : SentBy(m)[i] = steps[m][k].fu
               /\ \E i \in DOMAIN wiiSent :
                      wiiSent[i] = [from |-> "async", list |-> steps[m][k].new]

\* C18. No in-place recovery: when a step of a worker's cycle fails, the worker
\* passes the error to the notifier and returns: the failed step is the worker's
\* last, the list it was for is the last the worker has read, and the worker is
\* on its way to Fail or has called it and returned.
NoInPlaceRecovery ==
    \A m \in Mods :
        \A k \in FailedSteps(m) :
            /\ k = Len(steps[m])
            /\ Len(readLog[m]) = k
            /\ pc[m] \in {"fail", "done"}
            /\ werr[m] # NoErr
            /\ pc[m] = "done" => \E j \in DOMAIN failLog : failLog[j] = [by |-> m, err |-> werr[m]]
            /\ plainEvents[m] = <<>> /\ eventsOut[m] = <<>>
\* Witness of C18: a worker failed in its second step or later and has returned,
\* and the dispatcher holds a partition for it that it will not read.
NoInPlaceRecoveryWitness ==
    \E m \in Mods :
        /\ FailedSteps(m) # {}
        /\ Len(steps[m]) >= 2
        /\ pc[m] = "done"
        /\ parts[m] # <<>>

\* At most one list read by m's worker has not been through the module yet, and
\* it is the one the module is being invoked on.
OneInvocation ==
    \A m \in Mods :
        Len(readLog[m]) - Len(steps[m]) = (IF pc[m] = "apply" THEN 1 ELSE 0)
\* The worker of m reads a list only when every list it has read has been through
\* the module and it holds no output: every non-empty output so far has been
\* handed to workItemInput. An invocation ends before the next read.
ReadsAfterHandOver ==
    \A m \in Mods :
        /\ readLog'[m] # readLog[m] =>
               /\ Len(readLog[m]) = Len(steps[m])
               /\ plainEvents[m] = <<>> /\ eventsOut[m] = <<>>
               /\ SentBy(m) = NonEmptyOuts(m)
               /\ pc'[m] = "apply"
        /\ steps'[m] # steps[m] =>
               /\ pc[m] = "apply" /\ pc'[m] # "apply"
               /\ readLog'[m] = readLog[m]

\* C19. Per-module mutual exclusion: at most one apply/submit invocation on a
\* module is in progress at any time, and the module's worker does not read the
\* next list until the outbound list of the previous step has been handed to
\* workItemInput or dropped as empty (a worker that abandons it returns).
MutualExclusion == [](OneInvocation) /\ [][ReadsAfterHandOver]_vars
\* Witness of C19: a worker that has sent an output list is in its module again
\* while the dispatcher holds the next list for it.
MutualExclusionWitness ==
    \E m \in Mods :
        /\ pc[m] = "apply"
        /\ SentBy(m) # <<>>
        /\ dpc = "fwd" /\ parts[m] # <<>>

\* The output list worker m is waiting to write, as a sequence of lists.
PendingOut(m) == IF pc[m] = "write" THEN <<eventsOut[m]>> ELSE <<>>
\* How often the event with identity id is in a list sent on workItemInput or
\* waiting to be written by a worker.
Occurrences(id) ==
    Cardinality({j \in DOMAIN SentEvents : SentEvents[j].id = id})
    + Cardinality(UNION {{<<m, j>> : j \in {x \in DOMAIN eventsOut[m] :
                                                pc[m] = "write" /\ eventsOut[m][x].id = id}}
                         : m \in Mods})
\* Worker m has kept what it read: the events went to the module once each, in
\* order, and the follow-ups of every successful step are in its output, which
\* has been sent or is being written.
Kept(m) ==
    /\ StripFollowUps(Concat(readLog[m])).plain = AppliedEvents(m) \o plainEvents[m]
    /\ plainEvents[m] # <<>> => pc[m] = "apply"
    /\ \A k \in DOMAIN steps[m] :
           /\ steps[m][k].plain = StripFollowUps(readLog[m][k]).plain
           /\ steps[m][k].fu = StripFollowUps(readLog[m][k]).fu
           /\ steps[m][k].res = "ok" =>
                  /\ steps[m][k].out =
                         steps[m][k].fu \o (IF modType[m] = "active" THEN <<>> ELSE steps[m][k].new)
                  /\ \A j \in DOMAIN steps[m][k].fu : Occurrences(steps[m][k].fu[j].id) = 1
    /\ SentBy(m) \o PendingOut(m) = NonEmptyOuts(m)
\* Output is lost only by a failed step or by a worker that was stopped while
\* writing: then the worker has returned and the list lost is its last.
LostOnlyOnStop(m) ==
    SentBy(m) \o PendingOut(m) # NonEmptyOuts(m) =>
        /\ ctxDone \/ wen.exit
        /\ pc[m] \in {"fail", "done"}
        /\ SentBy(m) \o <<NonEmptyOuts(m)[Len(NonEmptyOuts(m))]>> = NonEmptyOuts(m)

\* C20. Event conservation: while no error is latched and the context is not
\* cancelled, every event of every list a worker has read is passed to its
\* module exactly once, and every follow-up stripped in a successful step is
\* exactly once in exactly one list sent to workItemInput (or about to be
\* written); output is lost only when the step fails or the worker is stopped
\* while writing.
EventConservation ==
    \A m \in Mods :
        /\ (~ctxDone /\ wen.err = NoErr) => Kept(m)
        /\ LostOnlyOnStop(m)
\* Witness of C20: with no error latched and no cancellation a worker has taken
\* two steps or more, one with a follow-up and one with two events, and has
\* sent all its output.
EventConservationWitness ==
    /\ ~ctxDone /\ wen.err = NoErr
    /\ \E m \in Mods :
           /\ Len(steps[m]) >= 2 /\ pc[m] = "read"
           /\ \E k \in DOMAIN steps[m] : steps[m][k].fu # <<>>
           /\ \E k \in DOMAIN steps[m] : Len(steps[m][k].plain) >= 2
           /\ SentBy(m) = NonEmptyOuts(m) /\ SentBy(m) # <<>>

\* The dispatcher is blocked forwarding a partition to m's inbound channel while
\* m's worker is blocked sending its output list to workItemInput.
CircularWait(m) == dpc = "fwd" /\ parts[m] # <<>> /\ pc[m] = "write"
\* No error is latched and the context is not cancelled.
Undisturbed == ~ctxDone /\ wen.err = NoErr
\* The identities of the events the bounds allow, and of those handed to a module.
EventIds == 1..FreshId(MaxNew)
AppliedIds == {e.id : e \in UNION {Range(AppliedEvents(m)) : m \in Mods}}

====
